---- MODULE Spec2Model ----
(***************************************************************************)
(* Halo LMS MCP bridge: the session/token lifecycle (auth.py, config.py,   *)
(* the token tools of server.py) and the two-phase assignment submission   *)
(* (submission.py, request.py, the submission tools of server.py).         *)
(*                                                                         *)
(* Every tool invocation is a caller p with a program counter pc[p]; one   *)
(* action is one remote round trip together with all the local code that   *)
(* runs up to the next round trip (or up to the return).  The persisted     *)
(* store is written by a separate step after it was read, as the code      *)
(* does (open/json.load, then open("w")/json.dump).                        *)
(***************************************************************************)
EXTENDS Integers, Sequences, FiniteSets, TLC

(* ------------------------------ bounds -------------------------------- *)

\* highest issue number the identity server hands out (1 = the pair the
\* user provisioned by hand)
MaxIssue == 2

\* highest cookie-set generation the identity server hands out (1 = a set
\* persisted by an earlier run)
MaxGen == 2

\* number of upload tickets (resource ids) the orchestration service issues
MaxRes == 2

(* ------------------------------ values -------------------------------- *)

\* an absent key: what dict.get(key) gives for it
NoneVal == [k |-> "none", n |-> 0]

\* JSON null stored under a key that is present
NullVal == [k |-> "null", n |-> 0]

\* the empty string
EmptyStr == [k |-> "empty", n |-> 0]

\* the access token of issue n
AuthTok(n) == [k |-> "auth", n |-> n]

\* the context token of issue n
CtxTok(n) == [k |-> "ctx", n |-> n]

\* a user identity
UserId == [k |-> "user", n |-> 1]

\* a transaction id prefix
TxnId == [k |-> "txn", n |-> 1]

\* the expiration timestamp of a session
Expiry == [k |-> "expires", n |-> 1]

\* Python truthiness of the values above: `not v`
Falsy(v) == v.k \in {"none", "null", "empty"}

(* ------------------------- persisted store ---------------------------- *)

SESSION_TOKEN == "__Secure-next-auth.session-token"

SESSION_COOKIE_NAMES ==
    { "__Host-next-auth.csrf-token",
      "__Secure-next-auth.callback-url",
      SESSION_TOKEN,
      "TE1TX0FVVEg",
      "TE1TX0NPTlRFWFQ" }

\* the value stored under "sessionCookies": the key may be absent, hold an
\* empty mapping, hold a (truthy) value that is no mapping, or hold a
\* mapping from cookie names to the values of one server generation
AbsentCookies == [shape |-> "absent", names |-> {}, gen |-> 0]
EmptyCookies == [shape |-> "empty", names |-> {}, gen |-> 0]
NotDictCookies == [shape |-> "notdict", names |-> {}, gen |-> 0]
CookieDict(names, g) ==
    IF names = {} THEN EmptyCookies
    ELSE [shape |-> "dict", names |-> names, gen |-> g]

\* the content of a config.json that does not exist: data = {}
EmptyData ==
    [ authToken |-> NoneVal, contextToken |-> NoneVal,
      transactionId |-> NoneVal, sessionCookies |-> AbsentCookies,
      sessionCookie |-> FALSE ]

NoFile == [exists |-> FALSE, data |-> EmptyData]

\* if _CONFIG_FILE.exists(): data = json.load(f)  (else data = {})
ReadData(f) == IF f.exists THEN f.data ELSE EmptyData

\* json.dump(data, f)
WriteData(d) == [exists |-> TRUE, data |-> d]

\* `not cookies` for the value stored under "sessionCookies"
NoCookies(cookies) == cookies.shape \in {"absent", "empty"}

\* isinstance(cookies, dict)
IsDict(cookies) == cookies.shape \in {"empty", "dict"}

GetSessionCookiesUnchecked(f) ==
    IF ~f.exists THEN AbsentCookies ELSE f.data.sessionCookies

\* auth._get_session_cookies_from_config; AbsentCookies stands for None
GetSessionCookiesFromConfig(f) ==
    IF ~f.exists THEN AbsentCookies
    ELSE LET cookies == f.data.sessionCookies
         IN  IF NoCookies(cookies) \/ ~IsDict(cookies)
             THEN AbsentCookies
             ELSE cookies

SetSessionCookiesMerged(d, cookies) ==
    [d EXCEPT !.sessionCookies =
                  IF IsDict(d.sessionCookies)
                  THEN CookieDict(d.sessionCookies.names \cup cookies.names,
                                  cookies.gen)
                  ELSE cookies,
              !.sessionCookie = FALSE]

SetSessionCookiesAlone(d, cookies) ==
    [EmptyData EXCEPT !.sessionCookies = cookies]

\* auth._save_session_cookies, the update of the data read: the new set
\* under "sessionCookies", the legacy "sessionCookie" key dropped
SetSessionCookies(d, cookies) ==
    [d EXCEPT !.sessionCookies = cookies, !.sessionCookie = FALSE]

SetTokensFresh(d, auth_token, context_token) ==
    [EmptyData EXCEPT !.authToken = auth_token,
                      !.contextToken = context_token]

SetTokensAuthOnly(d, auth_token, context_token) ==
    [d EXCEPT !.authToken = auth_token]

\* auth._save_tokens, the update of the data read
SetTokens(d, auth_token, context_token) ==
    [d EXCEPT !.authToken = auth_token, !.contextToken = context_token]

(* --------------------------- configuration ---------------------------- *)

\* the environment: HALO_AUTH_TOKEN / HALO_CONTEXT_TOKEN /
\* HALO_TRANSACTION_ID, NoneVal when unset
NoEnv == [auth |-> NoneVal, ctx |-> NoneVal, txn |-> NoneVal]

\* os.environ.get(name, default)
EnvGet(v, default) == IF v.k = "none" THEN default ELSE v

NoConfig == [set |-> FALSE, auth_token |-> NoneVal,
             context_token |-> NoneVal, transaction_id |-> EmptyStr]

\* config.get_config past the cache test: the load from file and
\* environment; set = FALSE stands for the ValueError
LoadConfig(f, e) ==
    LET d == ReadData(f)
        auth_token == EnvGet(e.auth, d.authToken)
        context_token == EnvGet(e.ctx, d.contextToken)
        txn0 == IF Falsy(d.transactionId) THEN EmptyStr ELSE d.transactionId
        transaction_id == EnvGet(e.txn, txn0)
    IN  IF Falsy(auth_token) THEN NoConfig
        ELSE [ set |-> TRUE,
               auth_token |-> auth_token,
               context_token |->
                   IF Falsy(context_token) THEN auth_token ELSE context_token,
               transaction_id |-> transaction_id ]

\* config.get_config: the cached configuration, loaded on first use
GetConfig(c, f, e) == IF c.set THEN c ELSE LoadConfig(f, e)

\* config.reload_config
ReloadConfig(f, e) == LoadConfig(f, e)

(* ------------------------------ state --------------------------------- *)

VARIABLES
    file,       \* config.json: [exists, data]
    cache,      \* config._cached_config
    env,        \* the process environment's three HALO_* variables
    srvIssue,   \* identity server: the issue number of the newest token pair
    srvGen,     \* identity server: the newest cookie-set generation
    srvSub,     \* LMS: the submission record of the assessment
    srvNextRid, \* orchestration service: resource ids handed out so far
    pc,         \* per caller: the round trip it is about to make
    op,         \* per caller: the tool it is running
    log,        \* per caller: the remote calls of its current invocation
    loc,        \* per caller: the local variables of the running function
    out         \* per caller: what its last invocation returned or raised

credVars == <<file, cache, env>>
idVars == <<srvIssue, srvGen>>
lmsVars == <<srvSub, srvNextRid>>
procVars == <<pc, op, log, loc, out>>
vars == <<file, cache, env, srvIssue, srvGen, srvSub, srvNextRid,
          pc, op, log, loc, out>>

\* the callers: tools are synchronous functions that the MCP server may
\* run for two requests at a time
Callers == {1, 2}

\* one caller alone: every serialized execution
Serial == {1}

\* the submission record before the first link: no record at all
NoSubmission == [id |-> "none", resources |-> <<>>, submitted |-> FALSE]

\* a submission record that exists and has nothing attached
EmptySubmission == [id |-> "S1", resources |-> <<>>, submitted |-> FALSE]

\* no session response parsed yet
NoSession ==
    [http |-> "none", userId |-> NoneVal, authToken |-> NoneVal,
     contextToken |-> NoneVal, expires |-> NoneVal]

\* create_session has not returned
NoCreated ==
    [ made |-> FALSE, sessionCookies |-> AbsentCookies,
      expires |-> NoneVal, authToken |-> NoneVal,
      contextToken |-> NoneVal, userId |-> NoneVal ]

\* no response of the GraphQL gateway received
NoResponse == [status |-> 0, hasErrors |-> FALSE, errors |-> <<>>]

\* no resource id
NoRid == [n |-> 0, name |-> "none"]

\* the locals of a function that has not assigned any
NoLocals ==
    [ session_cookies |-> AbsentCookies, data |-> EmptyData,
      session |-> NoSession, result |-> NoCreated,
      response |-> NoResponse,
      auth_token |-> NoneVal, context_token |-> NoneVal,
      cfg |-> NoConfig, ticket |-> "none", file_name |-> "none",
      resource_id |-> NoRid, submission |-> NoSubmission,
      assessment |-> "none", resource_info |-> <<>> ]

NoResult == [status |-> "none"]
NoOutcome == [status |-> "none", err |-> "none", res |-> NoResult]

\* raise: the invocation ends with the error named
Raised(err) == [status |-> "error", err |-> err, res |-> NoResult]

\* return: the invocation ends with a result
Returned(res) == [status |-> "ok", err |-> "none", res |-> res]

\* the stores a user can have provisioned before the server starts
InitialStores ==
    {NoFile} \cup
    { WriteData([ authToken |-> AuthTok(1), contextToken |-> CtxTok(1),
                  transactionId |-> TxnId, sessionCookies |-> c,
                  sessionCookie |-> FALSE ]) :
        c \in { AbsentCookies, EmptyCookies, NotDictCookies,
                CookieDict({SESSION_TOKEN}, 1) } } \cup
    { WriteData([ authToken |-> AuthTok(1), contextToken |-> CtxTok(1),
                  transactionId |-> TxnId, sessionCookies |-> AbsentCookies,
                  sessionCookie |-> TRUE ]) }

\* the environment with the hand-provisioned pair exported
TokenEnv == [auth |-> AuthTok(1), ctx |-> CtxTok(1), txn |-> NoneVal]

\* the environments the server can be started in: with a store, the
\* tokens are in the store alone or exported as well (next to a stored
\* session); without a store they are exported or nowhere
InitialEnvs(f) ==
    IF ~f.exists THEN {NoEnv, TokenEnv}
    ELSE IF f.data.sessionCookies.shape = "dict" THEN {NoEnv, TokenEnv}
    ELSE {NoEnv}

\* the server process starts: a store and an environment as provisioned,
\* nothing cached, the assessment with no submission record or an empty
\* one, no caller running
InitProcess ==
    /\ file \in InitialStores
    /\ env \in InitialEnvs(file)
    /\ cache = NoConfig
    /\ srvSub \in {NoSubmission, EmptySubmission}
    /\ srvNextRid = 0
    /\ pc = [p \in Callers |-> "idle"]
    /\ op = [p \in Callers |-> "none"]
    /\ log = [p \in Callers |-> <<>>]
    /\ loc = [p \in Callers |-> NoLocals]
    /\ out = [p \in Callers |-> NoOutcome]

Init ==
    /\ InitProcess
    /\ srvIssue = 1
    /\ srvGen = 1

\* a caller may invoke a tool when its previous invocation has ended
CanStart(p) == pc[p] \in {"idle", "done"}

\* the tool begins: fresh locals, nothing called, nothing returned
Begin(p, tool, at, l) ==
    /\ op' = [op EXCEPT ![p] = tool]
    /\ pc' = [pc EXCEPT ![p] = at]
    /\ log' = [log EXCEPT ![p] = <<>>]
    /\ loc' = [loc EXCEPT ![p] = l]
    /\ out' = [out EXCEPT ![p] = NoOutcome]

\* the tool ends before its first remote call
EndAtOnce(p, tool, o) ==
    /\ op' = [op EXCEPT ![p] = tool]
    /\ pc' = [pc EXCEPT ![p] = "done"]
    /\ log' = [log EXCEPT ![p] = <<>>]
    /\ loc' = [loc EXCEPT ![p] = NoLocals]
    /\ out' = [out EXCEPT ![p] = o]

\* a request that names no submission and lists nothing
NoRequest == [target |-> "none", body |-> <<>>]

\* HaloRequest.__init__: the tokens copied from cfg = get_config()
HaloRequest(cfg) ==
    [auth_token |-> cfg.auth_token, context_token |-> cfg.context_token]

BuildHeadersAuthForBoth(request) ==
    [ authorization |-> request.auth_token,
      contexttoken |-> request.auth_token ]

\* HaloRequest._build_headers: the bearer tokens of the request
BuildHeaders(request) ==
    [ authorization |-> request.auth_token,
      contexttoken |-> request.context_token ]

\* the headers of a request that carries no token: upload_to_s3 sends
\* Content-Type alone, the identity client of auth.py sends cookies
NoTokenHeaders == [authorization |-> NoneVal, contexttoken |-> NoneVal]

\* the calls sent by execute, execute_rest_post and execute_form_post
AuthenticatedCalls ==
    { "classes", "ticket", "link", "confirm", "assessment", "submission",
      "submit" }

\* the token headers of a call: those of a HaloRequest constructed in this
\* step for the calls sent through it, none for the PUT to the ticket URL
\* and for the calls to the identity service
Headers(call) ==
    IF call \in AuthenticatedCalls
    THEN BuildHeaders(HaloRequest(cache'))
    ELSE NoTokenHeaders

\* one remote call as the log keeps it: the token headers and the request
\* sent, what the client raised for the response ("none" for a response
\* it accepted) and the submission record the response carried
Entry(call, req, err, resp) ==
    [ call |-> call, headers |-> Headers(call), req |-> req, err |-> err,
      resp |-> resp ]

\* a remote call is sent and answered
Exchange(p, call, req, err, resp) ==
    log' = [log EXCEPT ![p] = Append(@, Entry(call, req, err, resp))]

\* a remote call whose request and response the model does not look into
Called(p, call, err) == Exchange(p, call, NoRequest, err, NoSubmission)

\* the invocation ends
End(p, o) ==
    /\ pc' = [pc EXCEPT ![p] = "done"]
    /\ out' = [out EXCEPT ![p] = o]

(* ------------------ identity server: /api/auth/session ---------------- *)

\* the issue numbers a session response can carry: the newest pair, or a
\* pair issued for this response
IssueChoices(i) == {i} \cup (IF i < MaxIssue THEN {i + 1} ELSE {})

\* the responses of GET /api/auth/session: a failed exchange
\* (raise_for_status), or a JSON body with or without each of userId,
\* authToken, contextToken; a body with a user identity has an expires
\* entry or none
SessionResponses(i) ==
    { [http |-> "error", userId |-> NoneVal, authToken |-> NoneVal,
       contextToken |-> NoneVal, expires |-> NoneVal] } \cup
    { [http |-> "ok", userId |-> u.id, authToken |-> a, contextToken |-> c,
       expires |-> u.expires] :
        u \in { [id |-> NoneVal, expires |-> NoneVal],
                [id |-> UserId, expires |-> NoneVal],
                [id |-> UserId, expires |-> Expiry] },
        a \in {NoneVal, NullVal, EmptyStr}
               \cup {AuthTok(n) : n \in IssueChoices(i)},
        c \in {NoneVal} \cup {CtxTok(n) : n \in IssueChoices(i)} }

\* the newest issue number once the response r was produced
IssuedBy(r, i) ==
    LET ns == {i} \cup {t.n : t \in {x \in {r.authToken, r.contextToken} :
                                       x.k \in {"auth", "ctx"}}}
    IN  CHOOSE m \in ns : \A n \in ns : n <= m

(* ------------------------- tool: refresh ------------------------------ *)

ClassifySessionTokensFirst(session) ==
    IF Falsy(session.authToken) \/ Falsy(session.contextToken)
    THEN "TokensMissing"
    ELSE IF Falsy(session.userId) THEN "SessionExpired"
    ELSE "none"

\* refresh_tokens: the two tests of the parsed session response; the error
\* raised, or "none"
ClassifySession(session) ==
    IF Falsy(session.userId) THEN "SessionExpired"
    ELSE IF Falsy(session.authToken) \/ Falsy(session.contextToken)
    THEN "TokensMissing"
    ELSE "none"

SessionTokensStored(session, data) ==
    [auth_token |-> data.authToken, context_token |-> data.contextToken]

\* refresh_tokens: auth_token and context_token, taken from the parsed
\* session response (data is the store's content, not consulted)
SessionTokens(session, data) ==
    [auth_token |-> session.authToken, context_token |-> session.contextToken]

\* refresh_tokens up to its request: the stored cookies are read
RefreshStart(p) ==
    /\ CanStart(p)
    /\ LET session_cookies == GetSessionCookiesFromConfig(file)
       IN  IF NoCookies(session_cookies)
           THEN EndAtOnce(p, "refresh", Raised("NoSessionStored"))
           ELSE Begin(p, "refresh", "ref_session",
                      [NoLocals EXCEPT !.session_cookies = session_cookies])
    /\ UNCHANGED <<credVars, idVars, lmsVars>>

\* refresh_tokens: the session request, the two checks of the response
\* and the read half of _save_tokens
RefreshSession(p) ==
    /\ pc[p] = "ref_session"
    /\ \E r \in SessionResponses(srvIssue) :
         /\ Called(p, "session", IF r.http = "error" THEN "HTTPError" ELSE "none")
         /\ srvIssue' = IssuedBy(r, srvIssue)
         /\ IF r.http = "error" THEN
                /\ End(p, Raised("HTTPError"))
                /\ UNCHANGED loc
            ELSE IF ClassifySession(r) # "none" THEN
                /\ End(p, Raised(ClassifySession(r)))
                /\ loc' = [loc EXCEPT ![p].session = r]
            ELSE
                /\ pc' = [pc EXCEPT ![p] = "ref_write"]
                /\ loc' = [loc EXCEPT
                       ![p].session = r,
                       ![p].auth_token =
                           SessionTokens(r, ReadData(file)).auth_token,
                       ![p].context_token =
                           SessionTokens(r, ReadData(file)).context_token,
                       ![p].data = ReadData(file)]
                /\ UNCHANGED out
    /\ UNCHANGED <<credVars, srvGen, lmsVars, op>>

\* _save_tokens: the write half; refresh_tokens returns its result
RefreshWrite(p) ==
    /\ pc[p] = "ref_write"
    /\ file' = WriteData(SetTokens(loc[p].data, loc[p].auth_token,
                                   loc[p].context_token))
    /\ pc' = [pc EXCEPT ![p] = "ref_reload"]
    /\ UNCHANGED <<cache, env, idVars, lmsVars, op, log, loc, out>>

\* server.refresh after refresh_tokens returned: _reload_config, then the
\* result is handed back (a ValueError of the reload becomes an error
\* status)
RefreshReload(p) ==
    /\ pc[p] = "ref_reload"
    /\ LET cfg == ReloadConfig(file, env)
       IN  /\ cache' = cfg
           /\ IF cfg.set
              THEN End(p, Returned([ status |-> "refreshed",
                                     expires |-> loc[p].session.expires,
                                     authToken |-> loc[p].auth_token,
                                     contextToken |-> loc[p].context_token ]))
              ELSE End(p, Raised("ConfigError"))
    /\ UNCHANGED <<file, env, idVars, lmsVars, op, log, loc>>

(* ---------------------- tool: setup_session --------------------------- *)

\* the cookie jars the client can hold after the csrf and callback
\* exchanges: nothing, the csrf cookie alone (tokens rejected), the
\* session cookies with or without a cookie that is no session cookie
JarChoices ==
    { {},
      {"__Host-next-auth.csrf-token"},
      {"__Host-next-auth.csrf-token", SESSION_TOKEN},
      {"__Host-next-auth.csrf-token", "_ga"},
      SESSION_COOKIE_NAMES \cup {"_ga"} }

\* the generation of the cookie set a callback response carries: a new one
\* per response, the last one again once MaxGen sets were handed out
NextGen(g) == IF g < MaxGen THEN g + 1 ELSE g

\* create_session: session_cookies, the jar's cookies whose name is one of
\* SESSION_COOKIE_NAMES
ExtractSessionCookies(jar, g) ==
    CookieDict({name \in jar : name \in SESSION_COOKIE_NAMES}, g)

HasSessionTokenAlways(session_cookies) == TRUE

\* create_session: "__Secure-next-auth.session-token" in session_cookies
HasSessionToken(session_cookies) == SESSION_TOKEN \in session_cookies.names

\* setup_session up to the first request of create_session: reload_config
SetupStart(p) ==
    /\ CanStart(p)
    /\ LET cfg == ReloadConfig(file, env)
       IN  /\ cache' = cfg
           /\ IF ~cfg.set
              THEN EndAtOnce(p, "setup_session", Raised("ConfigError"))
              ELSE Begin(p, "setup_session", "ss_csrf",
                         [NoLocals EXCEPT !.cfg = cfg])
    /\ UNCHANGED <<file, env, idVars, lmsVars>>

\* create_session: GET /api/auth/csrf
SetupCsrf(p) ==
    /\ pc[p] = "ss_csrf"
    /\ \E r \in {"error", "nocsrf", "ok"} :
         /\ Called(p, "csrf", IF r = "error" THEN "HTTPError" ELSE "none")
         /\ CASE r = "error" -> End(p, Raised("HTTPError"))
              [] r = "nocsrf" -> End(p, Raised("KeyError"))
              [] OTHER -> /\ pc' = [pc EXCEPT ![p] = "ss_callback"]
                          /\ UNCHANGED out
    /\ UNCHANGED <<credVars, idVars, lmsVars, op, loc>>

\* create_session: POST /api/auth/callback/tokens, the extraction of the
\* session cookies and the test for the session-token cookie
SetupCallback(p) ==
    /\ pc[p] = "ss_callback"
    /\ \/ /\ Called(p, "callback", "HTTPError")
          /\ End(p, Raised("HTTPError"))
          /\ UNCHANGED <<loc, srvGen>>
       \/ \E jar \in JarChoices :
            LET g == NextGen(srvGen)
                session_cookies == ExtractSessionCookies(jar, g)
            IN  /\ Called(p, "callback", "none")
                /\ srvGen' = g
                /\ loc' = [loc EXCEPT ![p].session_cookies = session_cookies]
                /\ IF ~HasSessionToken(session_cookies)
                   THEN End(p, Raised("TokensInvalid"))
                   ELSE /\ pc' = [pc EXCEPT ![p] = "ss_session"]
                        /\ UNCHANGED out
    /\ UNCHANGED <<credVars, srvIssue, lmsVars, op>>

GetOrSupplied(v, default) == default

\* session.get("authToken", auth_token): the default stands in for an
\* absent key only
GetOr(v, default) == IF v.k = "none" THEN default ELSE v

\* create_session: the result returned for the cookies extracted, the
\* parsed session response and the pair supplied
CreateSessionResult(session_cookies, session, auth_token, context_token) ==
    [ made |-> TRUE,
      sessionCookies |-> session_cookies,
      expires |-> session.expires,
      authToken |-> GetOr(session.authToken, auth_token),
      contextToken |-> GetOr(session.contextToken, context_token),
      userId |-> session.userId ]

\* create_session: GET /api/auth/session, the test for a user identity,
\* the result; setup_session: the read half of _save_session_cookies
SetupSession(p) ==
    /\ pc[p] = "ss_session"
    /\ \E r \in SessionResponses(srvIssue) :
         /\ Called(p, "session", IF r.http = "error" THEN "HTTPError" ELSE "none")
         /\ srvIssue' = IssuedBy(r, srvIssue)
         /\ IF r.http = "error" THEN
                /\ End(p, Raised("HTTPError"))
                /\ UNCHANGED loc
            ELSE IF Falsy(r.userId) THEN
                /\ End(p, Raised("NoUserData"))
                /\ loc' = [loc EXCEPT ![p].session = r]
            ELSE
                /\ pc' = [pc EXCEPT ![p] = "ss_write"]
                /\ loc' = [loc EXCEPT
                       ![p].session = r,
                       ![p].result =
                           CreateSessionResult(loc[p].session_cookies, r,
                                               loc[p].cfg.auth_token,
                                               loc[p].cfg.context_token),
                       ![p].data = ReadData(file)]
                /\ UNCHANGED out
    /\ UNCHANGED <<credVars, srvGen, lmsVars, op>>

\* _save_session_cookies: the write half; setup_session returns
SetupWrite(p) ==
    /\ pc[p] = "ss_write"
    /\ file' = WriteData(SetSessionCookies(loc[p].data,
                                           loc[p].result.sessionCookies))
    /\ End(p, Returned([ status |-> "session_created",
                         expires |-> loc[p].result.expires ]))
    /\ UNCHANGED <<cache, env, idVars, lmsVars, op, log, loc>>

(* ------------------- the authenticated request ------------------------ *)

\* the substrings _check_for_auth_errors looks for in a lower-cased message
Patterns ==
    { "unauthorized", "invalid", "token", "jwt", "jwe", "jws", "expired",
      "authentication", "failed" }

\* an entry of the errors list as _check_for_auth_errors reads it:
\* extensions.errorCode (0 when there is none) and the patterns its
\* lower-cased message contains
GqlError(code, message) == [errorCode |-> code, message |-> message]

\* an error with another code and a message that holds no pattern
OtherError == GqlError(403, {})

\* the errors the gateway answers with: a code alone, or a message that
\* holds one pattern or two
GqlErrors ==
    { OtherError, GqlError(401, {}) } \cup
    { GqlError(0, m) :
        m \in { {"unauthorized"}, {"expired"}, {"invalid"}, {"token"},
                {"invalid", "token"}, {"invalid", "jwt"},
                {"invalid", "jwe"}, {"invalid", "jws"},
                {"invalid", "failed"}, {"authentication"}, {"failed"},
                {"authentication", "failed"},
                {"authentication", "token"} } }

IsAuthErrorAnyInvalid(error) ==
    \/ error.errorCode = 401
    \/ "unauthorized" \in error.message
    \/ "invalid" \in error.message
    \/ "expired" \in error.message
    \/ "authentication" \in error.message /\ "failed" \in error.message

\* _check_for_auth_errors: the test applied to each error
IsAuthError(error) ==
    \/ error.errorCode = 401
    \/ "unauthorized" \in error.message
    \/ /\ "invalid" \in error.message
       /\ \/ "token" \in error.message
          \/ "jwt" \in error.message
          \/ "jwe" \in error.message
          \/ "jws" \in error.message
    \/ "expired" \in error.message
    \/ "authentication" \in error.message /\ "failed" \in error.message

\* the errors lists of a response: empty, one error, or an error before
\* or after an error that matches nothing
AllErrorLists ==
    { <<>> } \cup { <<e>> : e \in GqlErrors }
    \cup { <<OtherError, e>> : e \in GqlErrors }
    \cup { <<e, OtherError>> : e \in GqlErrors }

\* an error whose message says the token expired
ExpiredError == GqlError(0, {"expired"})

\* the errors lists the gateway answers a tool's request with
ErrorLists ==
    { <<>>, <<OtherError>>, <<ExpiredError>>, <<OtherError, ExpiredError>> }

\* the responses of the GraphQL gateway, as far as execute looks at them
GqlResponses ==
    { [status |-> 401, hasErrors |-> FALSE, errors |-> <<>>],
      [status |-> 500, hasErrors |-> FALSE, errors |-> <<>>],
      [status |-> 200, hasErrors |-> FALSE, errors |-> <<>>] } \cup
    { [status |-> 200, hasErrors |-> TRUE, errors |-> e] : e \in ErrorLists }

CheckForAuthErrorsFirstOnly(errors) ==
    IF errors # <<>> /\ IsAuthError(errors[1])
    THEN "TokenExpired"
    ELSE "APIError"

\* request._check_for_auth_errors on a response that has an errors entry
CheckForAuthErrors(errors) ==
    IF \E i \in 1..Len(errors) : IsAuthError(errors[i])
    THEN "TokenExpired"
    ELSE "APIError"

\* HaloRequest.execute: the error raised for the response, "none" when the
\* parsed data is returned
Execute(r) ==
    IF r.status = 401 THEN "TokenExpired"
    ELSE IF r.status # 200 THEN "HTTPError"
    ELSE IF r.hasErrors THEN CheckForAuthErrors(r.errors)
    ELSE "none"

\* the message of the error execute raises for an HTTP 401
Http401Message == {"http 401 unauthorized"}

\* the messages the error raised by execute carries: the message of every
\* entry of the errors list, in order; an HTTP status error carries none
ErrorMessages(r) ==
    IF r.status = 401 THEN <<Http401Message>>
    ELSE IF r.status # 200 THEN <<>>
    ELSE IF r.hasErrors THEN [i \in 1..Len(r.errors) |-> r.errors[i].message]
    ELSE <<>>

\* the responses of the orchestration service, as far as execute_rest_post
\* looks at them
RestResponses == {401, 500, 200}

\* HaloRequest.execute_rest_post: the error raised for the response status
ExecuteRestPost(status) ==
    IF status = 401 THEN "TokenExpired"
    ELSE IF status # 200 THEN "HTTPError"
    ELSE "none"

\* data of a 200 response without errors, at the path the caller reads:
\* no "data" entry, null at the path, or a record
GqlPayloads == {"nodata", "null", "record"}

\* what execute can end in, over all responses
GqlOutcomes == {Execute(r) : r \in GqlResponses}

\* what execute_rest_post can end in, over all responses
RestOutcomes == {ExecuteRestPost(status) : status \in RestResponses}

\* HaloRequest.__init__: cfg = get_config(), which fills the cache
Construct(p) ==
    /\ cache' = GetConfig(cache, file, env)
    /\ UNCHANGED <<file, env>>

(* --------------------- tool: upload_assignment_file ------------------- *)

\* the local files a caller can name; "missing" is a path that is no file
LocalFiles == {"essay.docx", "notes.pdf", "missing"}

\* upload_assignment_file up to the first request: class_cache.resolve
\* and _read_file
AttachStart(p) ==
    /\ CanStart(p)
    /\ \E found \in BOOLEAN, f \in LocalFiles :
         IF ~found THEN EndAtOnce(p, "attach", Raised("ClassNotFound"))
         ELSE IF f = "missing"
         THEN EndAtOnce(p, "attach", Raised("FileNotFound"))
         ELSE Begin(p, "attach", "att_ticket",
                    [NoLocals EXCEPT !.file_name = f])
    /\ UNCHANGED <<credVars, idVars, lmsVars>>

\* the bodies of a 200 response to generate-presigned-urls: an empty list,
\* a ticket without resourceId, a ticket without s3UploadUrl, a ticket
TicketBodies == {"empty", "noResourceId", "noUrl", "ticket"}

TicketErrorLate(body) == "none"

\* upload_assignment_file_flow: presigned_resp[0]["resourceId"] and
\* presigned_resp[0]["s3UploadUrl"]; the error raised, or "none"
TicketError(body) ==
    CASE body = "empty" -> "IndexError"
      [] body = "noResourceId" -> "KeyError"
      [] body = "noUrl" -> "KeyError"
      [] OTHER -> "none"

\* upload_assignment_file_flow: the ticket request
AttachTicket(p) ==
    /\ pc[p] = "att_ticket"
    /\ Construct(p)
    /\ IF ~cache'.set THEN
           /\ End(p, Raised("ConfigError"))
           /\ UNCHANGED <<log, loc, srvNextRid>>
       ELSE
           /\ \E err \in RestOutcomes, body \in TicketBodies :
                LET issued == err = "none" /\ body \in {"noUrl", "ticket"}
                IN  /\ Called(p, "ticket", err)
                    /\ issued => srvNextRid < MaxRes
                    /\ srvNextRid' = IF issued THEN srvNextRid + 1
                                     ELSE srvNextRid
                    /\ loc' = [loc EXCEPT
                           ![p].ticket = IF err = "none" THEN body ELSE "none",
                           ![p].resource_id =
                               IF issued
                               THEN [n |-> srvNextRid + 1,
                                     name |-> loc[p].file_name]
                               ELSE NoRid]
                    /\ IF err # "none" THEN End(p, Raised(err))
                       ELSE IF TicketError(body) # "none"
                       THEN End(p, Raised(TicketError(body)))
                       ELSE /\ pc' = [pc EXCEPT ![p] = "att_put"]
                            /\ UNCHANGED out
    /\ UNCHANGED <<idVars, srvSub, op>>

AttachPutRetry(p) ==
    /\ pc[p] = "att_put"
    /\ \/ /\ Called(p, "put", "none")
          /\ pc' = [pc EXCEPT ![p] = "att_link"]
          /\ UNCHANGED out
       \/ \E err \in {"HTTPError", "none"} :
            /\ log' = [log EXCEPT ![p] =
                   Append(Append(@, Entry("put", NoRequest, "HTTPError",
                                          NoSubmission)),
                          Entry("put", NoRequest, err, NoSubmission))]
            /\ IF err # "none" THEN End(p, Raised(err))
               ELSE /\ pc' = [pc EXCEPT ![p] = "att_link"]
                    /\ UNCHANGED out
    /\ UNCHANGED <<credVars, idVars, lmsVars, op, loc>>

\* request.upload_to_s3: the raw PUT to the ticket URL
AttachPut(p) ==
    /\ pc[p] = "att_put"
    /\ \/ /\ Called(p, "put", "HTTPError")
          /\ End(p, Raised("HTTPError"))
       \/ /\ Called(p, "put", "none")
          /\ pc' = [pc EXCEPT ![p] = "att_link"]
          /\ UNCHANGED out
    /\ UNCHANGED <<credVars, idVars, lmsVars, op, loc>>

LinkedReplacing(sub, rid) ==
    [ id |-> IF sub.id = "none" THEN "S2" ELSE sub.id,
      resources |-> << [ id |-> 1, rid |-> rid.n,
                         name |-> rid.name, confirmed |-> FALSE ] >>,
      submitted |-> sub.submitted ]

\* the LMS executes bulkAddAssignmentSubmissionResource: the record is
\* created by the first link (under an id of its own), the resource is
\* appended
Linked(sub, rid) ==
    [ id |-> IF sub.id = "none" THEN "S2" ELSE sub.id,
      resources |-> Append(sub.resources,
                           [ id |-> Len(sub.resources) + 1, rid |-> rid.n,
                             name |-> rid.name, confirmed |-> FALSE ]),
      submitted |-> sub.submitted ]

\* bulk_resp["data"]["bulkAddAssignmentSubmissionResource"] when the
\* mutation answered null
NullSubmission == [id |-> "null", resources |-> <<>>, submitted |-> FALSE]

\* upload_assignment_file_flow: the link mutation
AttachLink(p) ==
    /\ pc[p] = "att_link"
    /\ Construct(p)
    /\ IF ~cache'.set THEN
           /\ End(p, Raised("ConfigError"))
           /\ UNCHANGED <<log, loc, srvSub>>
       ELSE
           /\ \E err \in GqlOutcomes, payload \in GqlPayloads :
                LET linked == err = "none" /\ payload = "record"
                IN  /\ Exchange(p, "link",
                                [ target |-> "assessment",
                                  body |-> <<loc[p].resource_id.n>> ],
                                err,
                                IF linked
                                THEN Linked(srvSub, loc[p].resource_id)
                                ELSE IF err = "none" /\ payload = "null"
                                THEN NullSubmission
                                ELSE NoSubmission)
                    /\ srvSub' = IF linked
                                 THEN Linked(srvSub, loc[p].resource_id)
                                 ELSE srvSub
                    /\ IF err # "none" THEN
                           /\ End(p, Raised(err))
                           /\ UNCHANGED loc
                       ELSE IF payload = "nodata" THEN
                           /\ End(p, Raised("KeyError"))
                           /\ UNCHANGED loc
                       ELSE
                           /\ pc' = [pc EXCEPT ![p] = "att_confirm"]
                           /\ loc' = [loc EXCEPT ![p].submission =
                                  IF linked THEN srvSub' ELSE NullSubmission]
                           /\ UNCHANGED out
    /\ UNCHANGED <<idVars, srvNextRid, op>>

\* the orchestration service records that the upload of rid is COMPLETED
Confirmed(sub, rid) ==
    [sub EXCEPT !.resources =
        [i \in 1..Len(sub.resources) |->
            IF sub.resources[i].rid = rid.n
            THEN [sub.resources[i] EXCEPT !.confirmed = TRUE]
            ELSE sub.resources[i]]]

FormatResourcesReversed(resources) ==
    [i \in 1..Len(resources) |->
        [ fileName |-> resources[Len(resources) + 1 - i].name,
          resourceId |-> resources[Len(resources) + 1 - i].rid ]]

\* submission._format_resources
FormatResources(resources) ==
    [i \in 1..Len(resources) |->
        [fileName |-> resources[i].name, resourceId |-> resources[i].rid]]

AttachResultNamedId(file_name, submission) ==
    [ uploadedFile |-> file_name,
      submissionId |-> file_name,
      totalAttachedFiles |-> Len(submission.resources),
      attachedFiles |-> FormatResources(submission.resources) ]

AttachResultLastOnly(file_name, submission) ==
    [ uploadedFile |-> file_name,
      submissionId |-> submission.id,
      totalAttachedFiles |-> 1,
      attachedFiles |->
          FormatResources(SubSeq(submission.resources,
                                 Len(submission.resources),
                                 Len(submission.resources))) ]

\* upload_assignment_file_flow: the result returned
AttachResult(file_name, submission) ==
    [ uploadedFile |-> file_name,
      submissionId |-> submission.id,
      totalAttachedFiles |-> Len(submission.resources),
      attachedFiles |-> FormatResources(submission.resources) ]

AttachConfirmThenSubmit(p) ==
    /\ pc[p] = "att_confirm"
    /\ Construct(p)
    /\ cache'.set
    /\ log' = [log EXCEPT ![p] =
           Append(Append(@, Entry("confirm", NoRequest, "none",
                                  NoSubmission)),
                  Entry("submit", NoRequest, "none", NoSubmission))]
    /\ srvSub' = [Confirmed(srvSub, loc[p].resource_id)
                    EXCEPT !.submitted = TRUE]
    /\ End(p, Returned(AttachResult(loc[p].file_name, loc[p].submission)))
    /\ UNCHANGED <<idVars, srvNextRid, op, loc>>

AttachConfirmSwallowed(p) ==
    /\ pc[p] = "att_confirm"
    /\ Construct(p)
    /\ cache'.set
    /\ loc[p].submission.id # "null"
    /\ \E err \in RestOutcomes :
         /\ Exchange(p, "confirm",
                     [target |-> "none", body |-> <<loc[p].resource_id.n>>],
                     err, NoSubmission)
         /\ srvSub' = IF err = "none"
                      THEN Confirmed(srvSub, loc[p].resource_id)
                      ELSE srvSub
    /\ End(p, Returned(AttachResult(loc[p].file_name, loc[p].submission)))
    /\ UNCHANGED <<idVars, srvNextRid, op, loc>>

\* upload_assignment_file_flow: the confirm call and the return
AttachConfirm(p) ==
    /\ pc[p] = "att_confirm"
    /\ Construct(p)
    /\ IF ~cache'.set THEN
           /\ End(p, Raised("ConfigError"))
           /\ UNCHANGED <<log, srvSub>>
       ELSE
           /\ \E err \in RestOutcomes :
                    /\ Exchange(p, "confirm",
                                [ target |-> "none",
                                  body |-> <<loc[p].resource_id.n>> ],
                                err, NoSubmission)
                    /\ srvSub' = IF err = "none"
                                 THEN Confirmed(srvSub, loc[p].resource_id)
                                 ELSE srvSub
                    /\ IF err # "none" THEN End(p, Raised(err))
                       ELSE IF loc[p].submission.id = "null"
                       THEN End(p, Raised("TypeError"))
                       ELSE End(p, Returned(AttachResult(loc[p].file_name,
                                                         loc[p].submission)))
    /\ UNCHANGED <<idVars, srvNextRid, op, loc>>

(* ------------------------ tool: submit_assignment --------------------- *)

\* submit_assignment up to the first request: class_cache.resolve
FinalizeStart(p) ==
    /\ CanStart(p)
    /\ \E found \in BOOLEAN :
         IF ~found THEN EndAtOnce(p, "finalize", Raised("ClassNotFound"))
         ELSE Begin(p, "finalize", "fin_assessment", NoLocals)
    /\ UNCHANGED <<credVars, idVars, lmsVars>>

\* submit_assignment_flow: the assessment query
FinalizeAssessment(p) ==
    /\ pc[p] = "fin_assessment"
    /\ Construct(p)
    /\ IF ~cache'.set THEN
           /\ End(p, Raised("ConfigError"))
           /\ UNCHANGED <<log, loc>>
       ELSE
           /\ \E err \in GqlOutcomes, assessment \in GqlPayloads :
                /\ Called(p, "assessment", err)
                /\ IF err # "none" THEN
                        /\ End(p, Raised(err))
                        /\ UNCHANGED loc
                   ELSE IF assessment = "nodata" THEN
                        /\ End(p, Raised("KeyError"))
                        /\ UNCHANGED loc
                   ELSE
                        /\ pc' = [pc EXCEPT ![p] = "fin_submission"]
                        /\ loc' = [loc EXCEPT ![p].assessment = assessment]
                        /\ UNCHANGED out
    /\ UNCHANGED <<idVars, lmsVars, op>>

\* a similarity-report status the LMS holds for a resource
SimilarityStatus == [k |-> "similarity", n |-> 1]

\* the literal "NOT_SUBMITTED"
NOT_SUBMITTED == [k |-> "similarity", n |-> 0]

\* what a fetched resource can have under similarityReportStatusEnum: no
\* such key, null, or a status
SimilarityValues == {NoneVal, NullVal, SimilarityStatus}

\* the ways the resources of a fetched record of n resources carry their
\* status: each has one, or one of them has null or no such key
SimilarityChoices(n) ==
    { st \in [1..n -> SimilarityValues] :
        \A i, j \in 1..n :
            (st[i] # SimilarityStatus /\ st[j] # SimilarityStatus) => i = j }

\* data["assignmentSubmission"] of the submission query: null while the
\* assessment has no submission record, else the record, each resource
\* with its similarityReportStatusEnum as st gives it
FetchedSubmission(sub, st) ==
    IF sub.id = "none" THEN NullSubmission
    ELSE [ id |-> sub.id,
           resources |->
               [i \in 1..Len(sub.resources) |->
                   [ id |-> sub.resources[i].id,
                     rid |-> sub.resources[i].rid,
                     name |-> sub.resources[i].name,
                     confirmed |-> sub.resources[i].confirmed,
                     similarity |-> st[i] ]],
           submitted |-> sub.submitted ]

\* submit_assignment_flow: resource_info
ResourceInfo(resources) ==
    [i \in 1..Len(resources) |->
        [ assignmentSubmissionResourceId |-> resources[i].id,
          resourceId |-> resources[i].rid,
          fileName |-> resources[i].name,
          similarityReportStatus |->
              GetOr(resources[i].similarity, NOT_SUBMITTED) ]]

NothingAttachedNever(resources) == FALSE

\* submit_assignment_flow: `not resources`
NothingAttached(resources) == Len(resources) = 0

\* submit_assignment_flow: the submission query, the test for attached
\* resources, resource_info
FinalizeSubmission(p) ==
    /\ pc[p] = "fin_submission"
    /\ Construct(p)
    /\ IF ~cache'.set THEN
           /\ End(p, Raised("ConfigError"))
           /\ UNCHANGED <<log, loc>>
       ELSE
           /\ \E err \in GqlOutcomes, hasData \in BOOLEAN,
                 st \in SimilarityChoices(Len(srvSub.resources)) :
                LET submission == FetchedSubmission(srvSub, st)
                IN  /\ (err # "none" \/ ~hasData)
                       => \A i \in DOMAIN st : st[i] = SimilarityStatus
                    /\ Exchange(p, "submission", NoRequest, err,
                                IF err = "none" /\ hasData THEN submission
                                ELSE NoSubmission)
                    /\ IF err # "none" THEN
                        /\ End(p, Raised(err))
                        /\ UNCHANGED loc
                       ELSE IF ~hasData THEN
                        /\ End(p, Raised("KeyError"))
                        /\ UNCHANGED loc
                       ELSE
                        /\ loc' = [loc EXCEPT
                               ![p].submission = submission,
                               ![p].resource_info =
                                   IF submission.id = "null" THEN <<>>
                                   ELSE ResourceInfo(submission.resources)]
                        /\ IF submission.id = "null"
                           THEN End(p, Raised("TypeError"))
                           ELSE IF NothingAttached(submission.resources)
                           THEN End(p, Raised("NothingAttached"))
                           ELSE /\ pc' = [pc EXCEPT ![p] = "fin_submit"]
                                /\ UNCHANGED out
    /\ UNCHANGED <<idVars, lmsVars, op>>

\* submit_assignment_flow: the result returned
FinalizeResult(status, submission, resource_info) ==
    [ status |-> status,
      submissionId |-> submission.id,
      filesSubmitted |->
          [i \in 1..Len(resource_info) |-> resource_info[i].fileName] ]

SubmitRequestCached(submission_id, resource_info) ==
    [target |-> submission_id, body |-> SubSeq(resource_info, 1, 1)]

\* submit_assignment_flow: the submit request, its path naming
\* submission_id and its body carrying resource_info
SubmitRequest(submission_id, resource_info) ==
    [target |-> submission_id, body |-> resource_info]

FinalizeSubmitOptimistic(p) ==
    /\ pc[p] = "fin_submit"
    /\ Construct(p)
    /\ cache'.set
    /\ \E err \in RestOutcomes :
            /\ Exchange(p, "submit",
                        SubmitRequest(loc[p].submission.id,
                                      loc[p].resource_info),
                        err, NoSubmission)
            /\ srvSub' = IF err = "none"
                         THEN [srvSub EXCEPT !.submitted = TRUE]
                         ELSE srvSub
            /\ End(p, Returned(FinalizeResult(
                         "Unknown", loc[p].submission,
                         loc[p].resource_info)))
    /\ UNCHANGED <<idVars, srvNextRid, op, loc>>

FinalizeSubmitRefetched(p) ==
    /\ pc[p] = "fin_submit"
    /\ Construct(p)
    /\ cache'.set
    /\ loc[p].assessment # "null"
    /\ \E err \in RestOutcomes, reported \in {"Submitted", "Unknown"} :
         LET now == FetchedSubmission(srvSub,
                        [i \in 1..Len(srvSub.resources) |-> SimilarityStatus])
         IN  /\ Exchange(p, "submit",
                         SubmitRequest(now.id, ResourceInfo(now.resources)),
                         err, NoSubmission)
             /\ srvSub' = IF err = "none"
                          THEN [srvSub EXCEPT !.submitted = TRUE]
                          ELSE srvSub
             /\ IF err # "none" THEN End(p, Raised(err))
                ELSE End(p, Returned(FinalizeResult(
                         reported, now, ResourceInfo(now.resources))))
    /\ UNCHANGED <<idVars, srvNextRid, op, loc>>

\* submit_assignment_flow: the payload of the submit request
\* (assessment["title"]), the submit request and the return
FinalizeSubmit(p) ==
    /\ pc[p] = "fin_submit"
    /\ Construct(p)
    /\ IF ~cache'.set THEN
           /\ End(p, Raised("ConfigError"))
           /\ UNCHANGED <<log, srvSub>>
       ELSE IF loc[p].assessment = "null" THEN
           /\ End(p, Raised("TypeError"))
           /\ UNCHANGED <<log, srvSub>>
       ELSE
           /\ \E err \in RestOutcomes, reported \in {"Submitted", "Unknown"} :
                    /\ Exchange(p, "submit",
                                SubmitRequest(loc[p].submission.id,
                                              loc[p].resource_info),
                                err, NoSubmission)
                    /\ srvSub' = IF err = "none"
                                 THEN [srvSub EXCEPT !.submitted = TRUE]
                                 ELSE srvSub
                    /\ IF err # "none" THEN End(p, Raised(err))
                       ELSE End(p, Returned(FinalizeResult(
                                reported, loc[p].submission,
                                loc[p].resource_info)))
    /\ UNCHANGED <<idVars, srvNextRid, op, loc>>

(* --------------------- tools: check_tokens, reload_tokens ------------- *)

\* check_tokens: the status returned for what the request ended in
\* (except HaloTokenExpiredError / except Exception / no exception)
TokenStatus(err) ==
    IF err = "TokenExpired" THEN "expired"
    ELSE IF err # "none" THEN "error"
    ELSE "valid"

\* check_tokens from a configuration cache c: the one call and its
\* classification; nothing is raised. The cleaner of a response that
\* execute accepts can fail on its data.
CheckTokensFrom(p, tool, c) ==
    /\ cache' = GetConfig(c, file, env)
    /\ op' = [op EXCEPT ![p] = tool]
    /\ pc' = [pc EXCEPT ![p] = "done"]
    /\ IF ~cache'.set THEN
           /\ log' = [log EXCEPT ![p] = <<>>]
           /\ loc' = [loc EXCEPT ![p] = NoLocals]
           /\ out' = [out EXCEPT ![p] =
                   Returned([status |-> TokenStatus("ConfigError")])]
       ELSE
           \E r \in GqlResponses, cleaned \in BOOLEAN :
                LET err == IF Execute(r) = "none" /\ ~cleaned
                           THEN "CleanerError"
                           ELSE Execute(r)
                IN  /\ Execute(r) # "none" => cleaned
                    /\ log' = [log EXCEPT ![p] =
                           <<Entry("classes", NoRequest, err,
                                   NoSubmission)>>]
                    /\ loc' = [loc EXCEPT ![p] =
                           [NoLocals EXCEPT !.response = r]]
                    /\ out' = [out EXCEPT ![p] =
                           Returned([status |-> TokenStatus(err)])]
    /\ UNCHANGED <<file, env, idVars, lmsVars>>

\* server.check_tokens
CheckTokens(p) ==
    /\ CanStart(p)
    /\ CheckTokensFrom(p, "check_tokens", cache)

\* server.reload_tokens: _reload_config, then check_tokens
ReloadTokens(p) ==
    /\ CanStart(p)
    /\ LET cfg == ReloadConfig(file, env)
       IN  IF ~cfg.set
           THEN /\ cache' = cfg
                /\ EndAtOnce(p, "reload_tokens", Returned([status |-> "error"]))
                /\ UNCHANGED <<file, env, idVars, lmsVars>>
           ELSE CheckTokensFrom(p, "reload_tokens", cfg)

\* the credential tools
AuthNext(p) ==
    \/ RefreshStart(p)
    \/ RefreshSession(p)
    \/ RefreshWrite(p)
    \/ RefreshReload(p)
    \/ SetupStart(p)
    \/ SetupCsrf(p)
    \/ SetupCallback(p)
    \/ SetupSession(p)
    \/ SetupWrite(p)
    \/ CheckTokens(p)
    \/ ReloadTokens(p)

\* the submission tools
SubNext(p) ==
    \/ AttachStart(p)
    \/ AttachTicket(p)
    \/ AttachPut(p)
    \/ AttachLink(p)
    \/ AttachConfirm(p)
    \/ FinalizeStart(p)
    \/ FinalizeAssessment(p)
    \/ FinalizeSubmission(p)
    \/ FinalizeSubmit(p)

Next == \E p \in Callers : AuthNext(p) \/ SubNext(p)

Spec == Init /\ [][Next]_vars

\* the credential tools alone, serialized
SpecAuth == Init /\ [][\E p \in Serial : AuthNext(p)]_vars

\* the submission tools alone, serialized
SpecSub == Init /\ [][\E p \in Serial : SubNext(p)]_vars

\* refresh_tokens and setup_session
SessionNext(p) ==
    \/ RefreshStart(p)
    \/ RefreshSession(p)
    \/ RefreshWrite(p)
    \/ RefreshReload(p)
    \/ SetupStart(p)
    \/ SetupCsrf(p)
    \/ SetupCallback(p)
    \/ SetupSession(p)
    \/ SetupWrite(p)

\* a provisioned store with a stored session, nothing exported
InitPair ==
    /\ Init
    /\ file.exists
    /\ file.data.sessionCookies.shape = "dict"
    /\ env = NoEnv

\* two callers, one invocation of refresh or setup_session each, their
\* steps interleaved
SpecSessionPair ==
    InitPair /\ [][\E p \in Callers : pc[p] # "done" /\ SessionNext(p)]_vars

\* a submission record that holds one resource, attached and confirmed
\* before the server started
AttachedBefore ==
    Confirmed(Linked(EmptySubmission, [n |-> 1, name |-> "notes.pdf"]),
              [n |-> 1, name |-> "notes.pdf"])

\* a provisioned store with a stored session, nothing exported, the
\* assessment with a submission record that holds nothing or one resource
InitSubmissionPair ==
    /\ file \in { f \in InitialStores :
                    f.exists /\ f.data.sessionCookies.shape = "dict" }
    /\ env = NoEnv
    /\ cache = NoConfig
    /\ srvIssue = 1
    /\ srvGen = 1
    /\ srvSub \in {EmptySubmission, AttachedBefore}
    /\ srvNextRid = Len(srvSub.resources)
    /\ pc = [p \in Callers |-> "idle"]
    /\ op = [p \in Callers |-> "none"]
    /\ log = [p \in Callers |-> <<>>]
    /\ loc = [p \in Callers |-> NoLocals]
    /\ out = [p \in Callers |-> NoOutcome]

\* two callers, one invocation of attach or finalize each on the one
\* assessment, their steps interleaved
SpecSubmissionPair ==
    InitSubmissionPair
    /\ [][\E p \in Callers : pc[p] # "done" /\ SubNext(p)]_vars

\* the responses execute is applied to: each status without an errors
\* entry, a 200 with each errors list, and the error statuses with a body
\* that has an errors entry as well
ExecuteInputs ==
    { [status |-> s, hasErrors |-> FALSE, errors |-> <<>>] :
        s \in {401, 500, 200} } \cup
    { [status |-> 200, hasErrors |-> TRUE, errors |-> e] :
        e \in AllErrorLists } \cup
    { [status |-> s, hasErrors |-> TRUE, errors |-> e] :
        s \in {401, 500}, e \in {<<OtherError>>, <<ExpiredError>>} }

\* HaloRequest.execute applied to the response the gateway gives the
\* caller: the parsed data returned, or the error raised with its messages
ExecuteResponse(p) ==
    /\ pc[p] = "idle"
    /\ LET r == loc[p].response
       IN  /\ pc' = [pc EXCEPT ![p] = "done"]
           /\ op' = [op EXCEPT ![p] = "execute"]
           /\ log' = [log EXCEPT ![p] =
                  <<Entry("graphql", NoRequest, Execute(r), NoSubmission)>>]
           /\ out' = [out EXCEPT ![p] =
                  IF Execute(r) = "none"
                  THEN Returned([status |-> "data"])
                  ELSE [ status |-> "error", err |-> Execute(r),
                         res |-> [ status |-> "none",
                                   messages |-> ErrorMessages(r) ] ]]
    /\ UNCHANGED <<credVars, idVars, lmsVars, loc>>

\* a provisioned store, nothing exported or cached, no caller running;
\* each caller holds the response the gateway gives to its request
InitExecute ==
    /\ file \in { f \in InitialStores :
                    f.exists /\ f.data.sessionCookies.shape = "dict" }
    /\ env = NoEnv
    /\ cache = NoConfig
    /\ srvIssue = 1
    /\ srvGen = 1
    /\ srvSub = NoSubmission
    /\ srvNextRid = 0
    /\ pc = [p \in Callers |-> "idle"]
    /\ op = [p \in Callers |-> "none"]
    /\ log = [p \in Callers |-> <<>>]
    /\ loc \in [Callers ->
                  {[NoLocals EXCEPT !.response = r] : r \in ExecuteInputs}]
    /\ out = [p \in Callers |-> NoOutcome]

\* execute alone, over the responses
SpecExecute == InitExecute /\ [][\E p \in Callers : ExecuteResponse(p)]_vars

\* every tool, started with a provisioned store (tokens and a stored
\* session) and nothing exported, against an identity server
\* that rotates nothing: each session response re-issues the newest pair,
\* each callback response the newest cookie-set generation
InitTools ==
    /\ InitProcess
    /\ file.exists
    /\ file.data.sessionCookies.shape = "dict"
    /\ env = NoEnv
    /\ srvIssue = MaxIssue
    /\ srvGen = MaxGen

SpecTools ==
    InitTools /\ [][\E p \in Serial : AuthNext(p) \/ SubNext(p)]_vars

(* ------------------------------ claims -------------------------------- *)

\* the elements of a sequence
Range(seq) == {seq[i] : i \in 1..Len(seq)}

\* a is an initial part of b
IsPrefix(a, b) == Len(a) <= Len(b) /\ \A i \in 1..Len(a) : a[i] = b[i]

\* this step begins an invocation of tool by caller p
Starts(p, tool) ==
    /\ CanStart(p)
    /\ op'[p] = tool
    /\ <<pc[p], op[p], log[p], loc[p], out[p]>>
         # <<pc'[p], op'[p], log'[p], loc'[p], out'[p]>>

\* the names of the remote calls caller p's invocation has sent, in order
Calls(p) == [i \in 1..Len(log[p]) |-> log[p][i].call]

\* this step sends the remote call named by caller p
Issues(p, call) ==
    /\ log'[p] # log[p]
    /\ log'[p] # <<>>
    /\ log'[p][Len(log'[p])].call = call

\* the persisted store holds no session cookie set: no config file, or the
\* sessionCookies key absent, empty or no mapping
NoSessionStored(f) ==
    \/ ~f.exists
    \/ f.data.sessionCookies.shape \in {"absent", "empty", "notdict"}

\* C1: refresh_tokens called while the store holds no session cookie set
\* ends at once with the "no session stored" error, has sent no request,
\* and leaves the store as it was.
C1_RefreshWithoutSession ==
    [][\A p \in Callers :
          (Starts(p, "refresh") /\ NoSessionStored(file))
          => /\ pc'[p] = "done"
             /\ out'[p] = Raised("NoSessionStored")
             /\ log'[p] = <<>>
             /\ file' = file]_vars

C1_Witness ==
    \E p \in Callers :
        /\ op[p] = "refresh" /\ pc[p] = "done"
        /\ out[p] = Raised("NoSessionStored")
        /\ log[p] = <<>>
        /\ file.exists /\ file.data.sessionCookies.shape = "notdict"

\* C2: finalize whose submission fetch returned a record with no attached
\* resource ends with the "nothing attached" error having sent the two
\* read queries and nothing else: no submit call.
C2_FinalizeNothingAttached ==
    \A p \in Callers :
        ( /\ op[p] = "finalize"
          /\ loc[p].submission.id \notin {"none", "null"}
          /\ Len(loc[p].submission.resources) = 0 )
        => /\ pc[p] = "done"
           /\ out[p] = Raised("NothingAttached")
           /\ Calls(p) = <<"assessment", "submission">>

C2_Witness ==
    \E p \in Callers :
        /\ op[p] = "finalize" /\ pc[p] = "done"
        /\ loc[p].submission = EmptySubmission
        /\ out[p] = Raised("NothingAttached")

\* what the flow raises for a ticket response it cannot use (the spec's
\* UploadError at the ticket step)
TicketFailures == {"IndexError", "KeyError"}

AttachOrder == <<"ticket", "put", "link", "confirm">>

\* the number of remote steps behind an attach that is about to make the
\* step named
AttachStepsBefore(at) ==
    CASE at = "att_ticket" -> 0
      [] at = "att_put" -> 1
      [] at = "att_link" -> 2
      [] at = "att_confirm" -> 3

\* C4: the calls of one attach are an initial part of ticket, PUT, link,
\* confirm (fixed order, each at most once, nothing after a failure); a
\* step is made only after all steps before it were made and did not
\* fail; a result is returned only after all four.
C4_AttachOrder ==
    \A p \in Callers :
        op[p] = "attach"
        => /\ IsPrefix(Calls(p), AttachOrder)
           /\ pc[p] # "done" => Len(log[p]) = AttachStepsBefore(pc[p])
           /\ \A i \in 1..Len(log[p]) :
                 log[p][i].err # "none"
                 => /\ i = Len(log[p])
                    /\ pc[p] = "done"
                    /\ out[p] = Raised(log[p][i].err)
           /\ (pc[p] = "done" /\ out[p].status = "ok")
              => Calls(p) = AttachOrder
           /\ (pc[p] = "done" /\ Len(log[p]) < 4) => out[p].status = "error"

C4_Witness ==
    \E p \in Callers :
        /\ op[p] = "attach" /\ pc[p] = "done"
        /\ out[p] = Raised("HTTPError")
        /\ Calls(p) = <<"ticket", "put">>

\* C5: a submit call is only ever sent by a finalize invocation.
C5_SubmitOnlyInFinalize ==
    \A p \in Callers : "submit" \in Range(Calls(p)) => op[p] = "finalize"

C5_Witness ==
    /\ \E p \in Callers :
         /\ op[p] = "attach" /\ pc[p] = "done" /\ out[p].status = "ok"
         /\ Calls(p) = AttachOrder
    /\ srvSub.resources # <<>>
    /\ ~srvSub.submitted

\* the calls of the submission flow that attach or submit
AttachOrSubmitCalls == {"ticket", "put", "link", "confirm", "submit"}

\* C6 as stated: once a finalize has succeeded for the assessment, no
\* attach or submit call is sent for it any more.
C6_FinalizeTerminal ==
    [][\A p \in Callers :
          srvSub.submitted
          => \A call \in AttachOrSubmitCalls : ~Issues(p, call)]_vars

\* a session cookie set is stored
SessionStored(f) ==
    f.exists /\ f.data.sessionCookies.shape = "dict"
    /\ SESSION_TOKEN \in f.data.sessionCookies.names

\* caller p's invocation ended rejected as token-expired
RejectedAsExpired(p) ==
    /\ pc[p] = "done"
    /\ \/ out[p].err = "TokenExpired"
       \/ /\ op[p] \in {"check_tokens", "reload_tokens"}
          /\ out[p].res.status = "expired"

\* C7 as stated: a tool call rejected as token-expired while a session
\* cookie set is stored has made the system run refresh_tokens (the
\* session request was sent).
C7_AutomaticRefresh ==
    \A p \in Callers :
        (RejectedAsExpired(p) /\ SessionStored(file))
        => "session" \in Range(Calls(p))

\* C8: the write of a refresh stores exactly the returned pair under
\* authToken and contextToken and leaves the other keys of the store
\* (sessionCookies, transactionId, the legacy sessionCookie) as they were;
\* the result reports the stored pair.
C8_RefreshOverwritesTokensOnly ==
    [][\A p \in Callers :
          (op[p] = "refresh" /\ pc[p] = "ref_write" /\ pc'[p] = "ref_reload")
          => /\ file'.exists
             /\ file'.data.authToken = loc[p].session.authToken
             /\ file'.data.contextToken = loc[p].session.contextToken
             /\ file'.data.sessionCookies = file.data.sessionCookies
             /\ file'.data.transactionId = file.data.transactionId
             /\ file'.data.sessionCookie = file.data.sessionCookie]_vars

C8_Witness ==
    \E p \in Callers :
        /\ op[p] = "refresh" /\ pc[p] = "done" /\ out[p].status = "ok"
        /\ out[p].res.authToken = AuthTok(2)
        /\ file.data.authToken = AuthTok(2)
        /\ file.data.contextToken = CtxTok(2)
        /\ file.data.sessionCookies.shape = "dict"

\* C9: a refresh whose session response has no user identity fails with
\* "session expired", whatever else the response holds; one with a user
\* identity and a token missing fails with "tokens missing"; and no step
\* of a refresh but the write after both tests passed changes the store.
C9_RefreshClassification ==
    /\ [](\A p \in Callers :
            (op[p] = "refresh" /\ loc[p].session.http = "ok")
            => /\ Falsy(loc[p].session.userId)
                  => (pc[p] = "done" /\ out[p] = Raised("SessionExpired"))
               /\ ( /\ ~Falsy(loc[p].session.userId)
                    /\ \/ Falsy(loc[p].session.authToken)
                       \/ Falsy(loc[p].session.contextToken) )
                  => (pc[p] = "done" /\ out[p] = Raised("TokensMissing")))
    /\ [][\A p \in Callers :
            (op'[p] = "refresh" /\ pc'[p] # "ref_reload") => file' = file]_vars

C9_Witness ==
    \E p \in Callers :
        /\ op[p] = "refresh" /\ pc[p] = "done"
        /\ out[p] = Raised("SessionExpired")
        /\ Falsy(loc[p].session.userId)
        /\ Falsy(loc[p].session.authToken)

\* the requests of create_session, in order
SetupOrder == <<"csrf", "callback", "session">>

\* C10: create_session sends the guard request, the callback exchange and
\* the session request in this order; when the cookies extracted after the
\* callback lack the session-token cookie it fails with "tokens invalid"
\* and the session request is never sent; the user-identity test comes
\* last, after the session request.
C10_SetupOrder ==
    \A p \in Callers :
        op[p] = "setup_session"
        => /\ IsPrefix(Calls(p), SetupOrder)
           /\ ( /\ loc[p].session_cookies.shape # "absent"
                /\ SESSION_TOKEN \notin loc[p].session_cookies.names )
              => /\ pc[p] = "done"
                 /\ out[p] = Raised("TokensInvalid")
                 /\ Calls(p) = <<"csrf", "callback">>
           /\ (pc[p] = "done" /\ out[p].err = "NoUserData")
              => Calls(p) = SetupOrder
           /\ "session" \in Range(Calls(p))
              => SESSION_TOKEN \in loc[p].session_cookies.names

C10_Witness ==
    \E p \in Callers :
        /\ op[p] = "setup_session" /\ pc[p] = "done"
        /\ out[p] = Raised("TokensInvalid")
        /\ loc[p].session_cookies.names = {"__Host-next-auth.csrf-token"}
        /\ Calls(p) = <<"csrf", "callback">>

\* C11: a setup_session that succeeds has stored exactly the cookie set
\* create_session returned under sessionCookies (the prior set replaced)
\* and left authToken, contextToken and transactionId as they were; no
\* other step of a setup_session, whatever it ends in, changes the store.
C11_SetupPersistsOnSuccess ==
    /\ [](\A p \in Callers :
            (op[p] = "setup_session" /\ pc[p] = "done"
               /\ out[p].status = "ok")
            => /\ file.exists
               /\ file.data.sessionCookies = loc[p].result.sessionCookies)
    /\ [][\A p \in Callers :
            op'[p] = "setup_session"
            => IF pc[p] = "ss_write" /\ pc'[p] = "done"
               THEN /\ out'[p].status = "ok"
                    /\ file'.data.sessionCookies
                         = loc[p].result.sessionCookies
                    /\ file'.data.authToken = file.data.authToken
                    /\ file'.data.contextToken = file.data.contextToken
                    /\ file'.data.transactionId = file.data.transactionId
               ELSE file' = file]_vars

C11_Witness ==
    \E p \in Callers :
        /\ op[p] = "setup_session" /\ pc[p] = "done"
        /\ out[p].status = "ok"
        /\ file.data.sessionCookies
             = CookieDict({"__Host-next-auth.csrf-token", SESSION_TOKEN}, 2)
        /\ file.data.authToken = AuthTok(1)
        /\ loc[p].result.authToken = AuthTok(2)

\* the issue number of a token, 0 for a value that is no token
IssueOf(v) == IF v.k \in {"auth", "ctx"} THEN v.n ELSE 0

\* C12: the pair a create_session returns is no newer than the newest
\* pair the identity server has issued, the server's newest issue never
\* goes back, and the pair a refresh_tokens takes from its session
\* response is no older than the server's newest pair at the time of the
\* request: a refresh after an establishment yields a pair no older than
\* the pair established.
C12_RoundTripFreshness ==
    /\ [](\A p \in Callers :
            (op[p] = "setup_session" /\ loc[p].result.made)
            => /\ IssueOf(loc[p].result.authToken) <= srvIssue
               /\ IssueOf(loc[p].result.contextToken) <= srvIssue)
    /\ [][/\ srvIssue' >= srvIssue
          /\ \A p \in Callers :
               (op[p] = "refresh" /\ pc[p] = "ref_session"
                  /\ pc'[p] = "ref_write")
               => /\ IssueOf(loc'[p].auth_token) >= srvIssue
                  /\ IssueOf(loc'[p].context_token) >= srvIssue]_vars

C12_Witness ==
    \E p \in Callers :
        /\ op[p] = "refresh" /\ pc[p] = "done" /\ out[p].status = "ok"
        /\ loc[p].session_cookies.gen = 2
        /\ out[p].res.authToken = AuthTok(2)
        /\ out[p].res.contextToken = CtxTok(2)
        /\ srvIssue = 2

\* C13: the result of a create_session that returns carries the user
\* identity and the expiration of the session response, the token pair
\* of the session response whenever the response has one (never the
\* supplied pair instead), and a cookie set that holds the session-token
\* cookie.
C13_EstablishResult ==
    \A p \in Callers :
        (op[p] = "setup_session" /\ loc[p].result.made)
        => LET res == loc[p].result
               session == loc[p].session
           IN  /\ session.http = "ok"
               /\ res.userId = session.userId
               /\ ~Falsy(res.userId)
               /\ res.expires = session.expires
               /\ session.authToken.k # "none"
                  => res.authToken = session.authToken
               /\ session.contextToken.k # "none"
                  => res.contextToken = session.contextToken
               /\ res.sessionCookies.shape = "dict"
               /\ SESSION_TOKEN \in res.sessionCookies.names

C13_Witness ==
    \E p \in Callers :
        /\ op[p] = "setup_session" /\ loc[p].result.made
        /\ loc[p].cfg.auth_token = AuthTok(1)
        /\ loc[p].cfg.context_token = CtxTok(1)
        /\ loc[p].result.authToken = AuthTok(2)
        /\ loc[p].result.contextToken = CtxTok(2)
        /\ loc[p].result.userId = UserId
        /\ loc[p].result.expires = Expiry

\* the response is an HTTP 401, or carries a GraphQL error that indicates
\* an authentication or token failure
AuthRejected(r) ==
    \/ r.status = 401
    \/ /\ r.status = 200 /\ r.hasErrors
       /\ \E i \in 1..Len(r.errors) : IsAuthError(r.errors[i])

\* the outcomes of check_tokens
TokenStatuses == {"valid", "expired", "error"}

\* C14 as stated: a check_tokens has sent exactly one call and returned
\* one of the three outcomes, 'valid' exactly when the call succeeded and
\* 'expired' exactly when it was rejected by 401 or an authentication
\* error.
C14_ExactlyOneCall ==
    \A p \in Callers :
        (op[p] = "check_tokens" /\ pc[p] = "done")
        => /\ Len(log[p]) = 1
           /\ out[p].status = "ok"
           /\ out[p].res.status \in TokenStatuses
           /\ out[p].res.status = "valid" <=> log[p][1].err = "none"
           /\ out[p].res.status = "expired" <=> AuthRejected(loc[p].response)

\* C14 amended: a check_tokens never raises and returns one of the three
\* outcomes; it has sent one call when a configuration could be loaded
\* and none when not, which gives 'error'; with a call sent the outcome is
\* 'valid' exactly when the call succeeded and 'expired' exactly when it
\* was rejected by 401 or an authentication error; the store and the
\* environment are left alone and a loaded configuration is not replaced.
C14_CheckTokensOutcome ==
    /\ [](\A p \in Callers :
            (op[p] = "check_tokens" /\ pc[p] = "done")
            => /\ out[p].status = "ok"
               /\ out[p].res.status \in TokenStatuses
               /\ Len(log[p]) <= 1
               /\ Len(log[p]) = 1 <=> cache.set
               /\ Len(log[p]) = 0 => out[p].res.status = "error"
               /\ Len(log[p]) = 1
                  => /\ out[p].res.status = "valid"
                          <=> log[p][1].err = "none"
                     /\ out[p].res.status = "expired"
                          <=> AuthRejected(loc[p].response))
    /\ [][\A p \in Callers :
            Starts(p, "check_tokens")
            => /\ file' = file
               /\ env' = env
               /\ cache.set => cache' = cache]_vars

C14_Witness ==
    \E p \in Callers :
        /\ op[p] = "check_tokens" /\ pc[p] = "done"
        /\ loc[p].response.errors = <<OtherError, ExpiredError>>
        /\ out[p] = Returned([status |-> "expired"])
        /\ Calls(p) = <<"classes">>

\* the resource ids attached to a submission record, in order
Rids(sub) == [i \in 1..Len(sub.resources) |-> sub.resources[i].rid]

\* C15: the resource ids attached to the assessment are pairwise
\* distinct; a link that succeeds appends exactly the one resource id of
\* its ticket, an id not attached before, whatever the file's name; every
\* other step of attach and finalize leaves the attached list as it was.
C15_AttachAdditive ==
    /\ [](\A i, j \in 1..Len(srvSub.resources) :
            srvSub.resources[i].rid = srvSub.resources[j].rid => i = j)
    /\ [][/\ IsPrefix(Rids(srvSub), Rids(srvSub'))
          /\ LET Links(p) ==
                   /\ op[p] = "attach" /\ pc[p] = "att_link"
                   /\ pc'[p] = "att_confirm"
                   /\ loc'[p].submission.id # "null"
             IN  /\ \A p \in Callers :
                       Links(p) =>
                           /\ Rids(srvSub')
                                = Append(Rids(srvSub), loc[p].resource_id.n)
                           /\ loc[p].resource_id.n \notin Range(Rids(srvSub))
                 /\ (\A p \in Callers : ~Links(p))
                       => Rids(srvSub') = Rids(srvSub)]_vars

C15_Witness ==
    /\ Len(srvSub.resources) = 2
    /\ srvSub.resources[1].name = "essay.docx"
    /\ srvSub.resources[2].name = "essay.docx"
    /\ srvSub.resources[1].rid # srvSub.resources[2].rid
    /\ \E p \in Callers :
         /\ op[p] = "attach" /\ pc[p] = "done" /\ out[p].status = "ok"
         /\ out[p].res.totalAttachedFiles = 2

\* C16: the LMS's submission id for the assessment, once there is one,
\* never changes; every attach that succeeds reports it as submissionId
\* and every submit request of a finalize names it.
C16_SubmissionIdReused ==
    /\ [](\A p \in Callers :
            /\ (op[p] = "attach" /\ pc[p] = "done"
                   /\ out[p].status = "ok")
               => /\ srvSub.id # "none"
                  /\ out[p].res.submissionId = srvSub.id
            /\ (op[p] = "finalize" /\ Len(log[p]) = 3)
               => /\ srvSub.id # "none"
                  /\ log[p][3].req.target = srvSub.id)
    /\ [][srvSub.id # "none" => srvSub'.id = srvSub.id]_vars

C16_Witness ==
    \E p \in Callers :
        /\ op[p] = "finalize" /\ pc[p] = "done" /\ out[p].status = "ok"
        /\ log[p][3].call = "submit"
        /\ log[p][3].req.target = "S2"
        /\ out[p].res.submissionId = "S2"
        /\ Len(srvSub.resources) = 2

\* C17: the result of an attach that succeeds names the local file as
\* uploadedFile, the id of the record the link mutation returned as
\* submissionId, the length of that record's resource list as
\* totalAttachedFiles, and lists one summary per resource of that record
\* in the record's order.
C17_AttachResult ==
    \A p \in Callers :
        (op[p] = "attach" /\ pc[p] = "done" /\ out[p].status = "ok")
        => LET res == out[p].res
               linked == log[p][3].resp
           IN  /\ log[p][3].call = "link"
               /\ res.uploadedFile = loc[p].file_name
               /\ res.submissionId = linked.id
               /\ res.totalAttachedFiles = Len(linked.resources)
               /\ Len(res.attachedFiles) = Len(linked.resources)
               /\ \A i \in 1..Len(linked.resources) :
                     /\ res.attachedFiles[i].fileName
                          = linked.resources[i].name
                     /\ res.attachedFiles[i].resourceId
                          = linked.resources[i].rid

C17_Witness ==
    \E p \in Callers :
        /\ op[p] = "attach" /\ pc[p] = "done" /\ out[p].status = "ok"
        /\ out[p].res.uploadedFile = "essay.docx"
        /\ out[p].res.submissionId = "S1"
        /\ out[p].res.totalAttachedFiles = 2
        /\ out[p].res.attachedFiles[1].fileName = "notes.pdf"
        /\ out[p].res.attachedFiles[2].fileName = "essay.docx"

\* C18: the submit request of a finalize is a function of the record its
\* own submission fetch returned and of nothing else: it names that
\* record's id and lists that record's resources, one descriptor each, in
\* the record's order, whatever ran before in the process.
C18_SubmitFromFetchOnly ==
    \A p \in Callers :
        (op[p] = "finalize" /\ Len(log[p]) = 3)
        => LET fetched == log[p][2].resp
               req == log[p][3].req
           IN  /\ log[p][2].call = "submission"
               /\ log[p][3].call = "submit"
               /\ req.target = fetched.id
               /\ Len(req.body) = Len(fetched.resources)
               /\ \A i \in 1..Len(fetched.resources) :
                     /\ req.body[i].assignmentSubmissionResourceId
                          = fetched.resources[i].id
                     /\ req.body[i].resourceId = fetched.resources[i].rid
                     /\ req.body[i].fileName = fetched.resources[i].name
                     /\ req.body[i].similarityReportStatus
                          = IF fetched.resources[i].similarity = NoneVal
                            THEN NOT_SUBMITTED
                            ELSE fetched.resources[i].similarity

C18_Witness ==
    \E p \in Callers :
        /\ op[p] = "finalize" /\ Len(log[p]) = 3
        /\ log[p][3].call = "submit"
        /\ Len(log[p][3].req.body) = 2
        /\ srvSub.submitted

\* the fetched resource carries a status of the server's
HasStatus(r) == r.similarity.k = "similarity"

\* C19 as stated: the submit payload of a finalize has one descriptor per
\* fetched resource, in order, each with the server's similarity status
\* when the server supplied one and NOT_SUBMITTED when it supplied none;
\* filesSubmitted lists the descriptors' file names.
C19_SubmitPayload ==
    \A p \in Callers :
        (op[p] = "finalize" /\ Len(log[p]) = 3)
        => LET fetched == log[p][2].resp
               req == log[p][3].req
           IN  /\ Len(req.body) = Len(fetched.resources)
               /\ \A i \in 1..Len(fetched.resources) :
                     /\ req.body[i].assignmentSubmissionResourceId
                          = fetched.resources[i].id
                     /\ req.body[i].resourceId = fetched.resources[i].rid
                     /\ req.body[i].fileName = fetched.resources[i].name
                     /\ req.body[i].similarityReportStatus
                          = IF HasStatus(fetched.resources[i])
                            THEN fetched.resources[i].similarity
                            ELSE NOT_SUBMITTED
               /\ out[p].status = "ok"
                  => out[p].res.filesSubmitted
                       = [i \in 1..Len(req.body) |-> req.body[i].fileName]

\* C20: an attach whose confirm call failed has ended with that failure
\* as its error and with no result, the ticket, PUT and link steps before
\* it having succeeded.
C20_ConfirmFailureSurfaced ==
    \A p \in Callers :
        ( /\ op[p] = "attach" /\ Len(log[p]) = 4
          /\ log[p][4].err # "none" )
        => /\ log[p][4].call = "confirm"
           /\ \A i \in 1..3 : log[p][i].err = "none"
           /\ pc[p] = "done"
           /\ out[p] = Raised(log[p][4].err)
           /\ out[p].res = NoResult

C20_Witness ==
    \E p \in Callers :
        /\ op[p] = "attach" /\ pc[p] = "done"
        /\ Calls(p) = AttachOrder
        /\ log[p][4].err = "HTTPError"
        /\ out[p] = Raised("HTTPError")
        /\ Len(srvSub.resources) = 1
        /\ ~srvSub.resources[1].confirmed

\* C24: finalize sends its submit call only after the assessment query and
\* the submission query both succeeded and the fetched resource list is
\* non-empty; it returns a result (status, submission id, file names) only
\* when the submit call itself succeeded; an invocation in which any call
\* failed ends with an error and returns no result.
C24_NoSuccessOnFailure ==
    \A p \in Callers :
        op[p] = "finalize" =>
            /\ "submit" \in Range(Calls(p)) =>
                   /\ Calls(p) = <<"assessment", "submission", "submit">>
                   /\ log[p][1].err = "none"
                   /\ log[p][2].err = "none"
                   /\ Len(log[p][2].resp.resources) > 0
            /\ out[p].status = "ok" =>
                   /\ pc[p] = "done"
                   /\ Calls(p) = <<"assessment", "submission", "submit">>
                   /\ log[p][3].err = "none"
                   /\ out[p].res.status \in {"Submitted", "Unknown"}
                   /\ out[p].res.submissionId = log[p][2].resp.id
                   /\ out[p].res.filesSubmitted =
                          [i \in 1..Len(log[p][2].resp.resources) |->
                              log[p][2].resp.resources[i].name]
            /\ (\E i \in 1..Len(log[p]) : log[p][i].err # "none") =>
                   /\ pc[p] = "done"
                   /\ out[p].status = "error"
                   /\ out[p].err = log[p][Len(log[p])].err
                   /\ out[p].res = NoResult
            /\ out[p].status # "ok" => out[p].res = NoResult

C24_Witness ==
    \E p \in Callers :
        /\ op[p] = "finalize" /\ pc[p] = "done"
        /\ Calls(p) = <<"assessment", "submission", "submit">>
        /\ log[p][3].err # "none"
        /\ out[p].status = "error"
        /\ out[p].res = NoResult

\* C30: a finalize whose submission query answers with a null record (no
\* submission record exists for the assessment) ends with the same
\* "nothing attached" error as for an empty resource list, and sends no
\* submit call.
C30_NullRecordNothingAttached ==
    \A p \in Callers :
        ( /\ op[p] = "finalize"
          /\ Len(log[p]) >= 2
          /\ log[p][2].err = "none"
          /\ log[p][2].resp = NullSubmission )
        => /\ pc[p] = "done"
           /\ out[p] = Raised("NothingAttached")
           /\ Calls(p) = <<"assessment", "submission">>

\* C28: every resource a finalize names in its submit payload had its
\* upload confirmed; a resource linked by an attach that then failed at
\* the confirm call is not submitted by a later finalize.
C28_SubmittedWereConfirmed ==
    \A p \in Callers :
        (op[p] = "finalize" /\ "submit" \in Range(Calls(p))) =>
            \A i \in 1..Len(log[p][3].req.body) :
                \E j \in 1..Len(srvSub.resources) :
                    /\ srvSub.resources[j].rid =
                           log[p][3].req.body[i].resourceId
                    /\ srvSub.resources[j].confirmed

\* C27: when the refresh tool has returned status "refreshed", the
\* configuration cache holds the pair the session endpoint just returned
\* (so every HaloRequest constructed afterwards carries it), whether or
\* not the tokens are also exported in the environment.
C27_CacheHoldsRefreshedPair ==
    \A p \in Callers :
        ( /\ op[p] = "refresh" /\ pc[p] = "done"
          /\ out[p].status = "ok" )
        => /\ cache.set
           /\ cache.auth_token = out[p].res.authToken
           /\ cache.context_token = out[p].res.contextToken

\* C25: every call sent through a HaloRequest (GraphQL execute, REST
\* post) carries the access token and the context token of the one
\* configuration the request was constructed from, neither of them empty;
\* the PUT to the upload ticket URL carries neither token.
C25_TokensUsedTogether ==
    [][\A p \in Callers :
          log'[p] # log[p] /\ log'[p] # <<>> =>
              LET sent == log'[p][Len(log'[p])]
              IN  /\ sent.call \in { "classes", "ticket", "link", "confirm",
                                     "assessment", "submission", "submit" }
                     => /\ cache'.set
                        /\ sent.headers.authorization = cache'.auth_token
                        /\ sent.headers.contexttoken = cache'.context_token
                        /\ ~Falsy(sent.headers.authorization)
                        /\ ~Falsy(sent.headers.contexttoken)
                  /\ sent.call = "put"
                     => /\ sent.headers.authorization = NoneVal
                        /\ sent.headers.contexttoken = NoneVal]_vars

C25_Witness ==
    \E p \in Callers :
        /\ op[p] = "attach"
        /\ Len(log[p]) >= 2
        /\ log[p][1].call = "ticket" /\ log[p][2].call = "put"
        /\ log[p][1].headers.authorization = file.data.authToken
        /\ log[p][1].headers.contexttoken = file.data.contextToken
        /\ file.data.authToken # AuthTok(1)
        /\ file.data.contextToken # CtxTok(1)
        /\ log[p][2].headers = NoTokenHeaders

\* an error matches the authentication patterns: error code 401,
\* "unauthorized", "invalid" with token/jwt/jwe/jws, "expired", or
\* "authentication" with "failed"
MatchesAuthPatterns(error) ==
    \/ error.errorCode = 401
    \/ "unauthorized" \in error.message
    \/ "invalid" \in error.message
         /\ error.message \cap {"token", "jwt", "jwe", "jws"} # {}
    \/ "expired" \in error.message
    \/ {"authentication", "failed"} \subseteq error.message

\* C26 as stated: execute returns data only for a response without an
\* errors entry; for a response with an errors entry it raises
\* Unauthorized when the status is 401 or some error matches the
\* authentication patterns, and ApiError when none matches.
C26_ErrorsAlwaysClassified ==
    \A p \in Callers :
        op[p] = "execute" =>
            LET r == loc[p].response
            IN  /\ out[p].status = "ok" => ~r.hasErrors
                /\ r.hasErrors =>
                       /\ out[p].status = "error"
                       /\ out[p].err =
                              IF \/ r.status = 401
                                 \/ \E i \in 1..Len(r.errors) :
                                        MatchesAuthPatterns(r.errors[i])
                              THEN "TokenExpired"
                              ELSE "APIError"

\* C26 amended: execute returns data only for a response of status 200
\* without an errors entry; it raises Unauthorized for status 401 and the
\* HTTP status error for any other error status, whatever the body holds;
\* for a response of status 200 with an errors entry it raises
\* Unauthorized when some error, at any position, matches the
\* authentication patterns and ApiError when none matches, each carrying
\* the messages of all the errors in order.
C26_ExecuteClassification ==
    \A p \in Callers :
        op[p] = "execute" =>
            LET r == loc[p].response
            IN  /\ out[p].status = "ok" <=> (r.status = 200 /\ ~r.hasErrors)
                /\ r.status = 401 =>
                       (out[p].status = "error" /\ out[p].err = "TokenExpired")
                /\ r.status \notin {200, 401} =>
                       (out[p].status = "error" /\ out[p].err = "HTTPError")
                /\ (r.status = 200 /\ r.hasErrors) =>
                       /\ out[p].status = "error"
                       /\ out[p].err =
                              IF \E i \in 1..Len(r.errors) :
                                    MatchesAuthPatterns(r.errors[i])
                              THEN "TokenExpired"
                              ELSE "APIError"
                       /\ out[p].res.messages =
                              [i \in 1..Len(r.errors) |-> r.errors[i].message]

C26_Witness ==
    \E p \in Callers :
        /\ op[p] = "execute" /\ pc[p] = "done"
        /\ loc[p].response.status = 200
        /\ loc[p].response.errors =
               <<OtherError, GqlError(0, {"invalid", "jws"})>>
        /\ out[p].err = "TokenExpired"
        /\ out[p].res.messages = <<{}, {"invalid", "jws"}>>

\* the token pairs the store can have got whole: the provisioned pair and
\* the pair of each session response a refresh has accepted
IssuedPairs ==
    { <<AuthTok(1), CtxTok(1)>> } \cup
    { <<loc[p].session.authToken, loc[p].session.contextToken>> :
        p \in { q \in Callers : op[q] = "refresh" /\ Len(log[q]) = 1
                                  /\ log[q][1].err = "none"
                                  /\ loc[q].auth_token # NoneVal } }

\* C23: under any interleaving of two refresh or setup_session
\* invocations the stored access token and context token are a pair that
\* was issued together, the provisioned one or that of one session
\* response; the write of a refresh stores the pair of its own response,
\* so the last writer's pair is the one stored.
C23_StoredPairIssuedTogether ==
    /\ [](file.exists /\
          <<file.data.authToken, file.data.contextToken>> \in IssuedPairs)
    /\ [][\A p \in Callers :
            (pc[p] = "ref_write" /\ pc'[p] # "ref_write")
            => /\ file'.data.authToken = loc[p].session.authToken
               /\ file'.data.contextToken = loc[p].session.contextToken]_vars

C23_Witness ==
    \E p, q \in Callers :
        /\ p # q
        /\ op[p] = "refresh" /\ op[q] = "refresh"
        /\ pc[p] = "done" /\ pc[q] = "ref_reload"
        /\ out[p].status = "ok"
        /\ loc[p].data = loc[q].data
        /\ loc[p].session.authToken # loc[q].session.authToken
        /\ loc[p].session.contextToken # loc[q].session.contextToken
        /\ file.data.authToken = loc[q].session.authToken
        /\ file.data.contextToken = loc[q].session.contextToken

\* caller p has ended a refresh that succeeded
Refreshed(p) == op[p] = "refresh" /\ pc[p] = "done" /\ out[p].status = "ok"

\* caller q has ended a setup_session that succeeded
Established(q) ==
    op[q] = "setup_session" /\ pc[q] = "done" /\ out[q].status = "ok"

\* the store holds the pair refresh p returned and the cookie set
\* setup_session q created
HoldsBoth(p, q) ==
    /\ file.data.authToken = loc[p].auth_token
    /\ file.data.contextToken = loc[p].context_token
    /\ file.data.sessionCookies = loc[q].result.sessionCookies

\* C29 as stated: under any interleaving of a refresh and a
\* setup_session, once both have succeeded the store holds the newly
\* established cookie set and the refreshed token pair.
C29_NoLostUpdate ==
    \A p, q \in Callers :
        (Refreshed(p) /\ Established(q)) => HoldsBoth(p, q)

\* C29 amended: each of the two writes the file as it read it with its
\* own keys replaced (the token pair for refresh, the cookie set for
\* setup_session); a write made while the store is as it was at the
\* invocation's read step leaves the other keys alone, so that when the
\* other invocation has succeeded and its update is in the store, the
\* store holds both updates after the write.
C29_NoLostUpdateSerialized ==
    [][\A p, q \in Callers :
          /\ (pc[p] = "ref_write" /\ pc'[p] # "ref_write")
             => /\ file'.data.authToken = loc[p].auth_token
                /\ file'.data.contextToken = loc[p].context_token
                /\ file'.data.sessionCookies = loc[p].data.sessionCookies
                /\ loc[p].data = ReadData(file)
                   => /\ file'.data.sessionCookies = file.data.sessionCookies
                      /\ ( /\ Established(q)
                            /\ file.data.sessionCookies =
                                   loc[q].result.sessionCookies )
                         => HoldsBoth(p, q)'
          /\ (pc[p] = "ss_write" /\ pc'[p] # "ss_write")
             => /\ file'.data.sessionCookies = loc[p].result.sessionCookies
                /\ file'.data.authToken = loc[p].data.authToken
                /\ file'.data.contextToken = loc[p].data.contextToken
                /\ loc[p].data = ReadData(file)
                   => /\ file'.data.authToken = file.data.authToken
                      /\ file'.data.contextToken = file.data.contextToken
                      /\ ( /\ Refreshed(q)
                            /\ file.data.authToken = loc[q].auth_token
                            /\ file.data.contextToken = loc[q].context_token )
                         => (Established(p) /\ HoldsBoth(q, p))'
      ]_vars

C29_Witness ==
    \E p, q \in Callers :
        /\ Refreshed(p) /\ Established(q)
        /\ loc[q].data.authToken = loc[p].auth_token
        /\ loc[q].data.contextToken = loc[p].context_token
        /\ loc[p].auth_token # AuthTok(1)
        /\ loc[p].context_token # CtxTok(1)
        /\ loc[q].result.sessionCookies # loc[q].data.sessionCookies
        /\ HoldsBoth(p, q)

\* the resource ids a submit request names, in order
SubmittedRids(req) == [i \in 1..Len(req.body) |-> req.body[i].resourceId]

\* C21: the submit request of a finalize names the resources of the
\* record it fetched: exactly the resources attached on the server at the
\* moment of the submit call when no link was made since the fetch, and
\* none of the resources linked since the fetch otherwise; the server's
\* list changes by links alone, each appending its one resource.
C21_FinalizeSnapshot ==
    [][/\ \A p \in Callers :
            (op[p] = "finalize" /\ Issues(p, "submit")) =>
                LET fetched == log[p][2].resp
                    sent == SubmittedRids(log'[p][3].req)
                IN  /\ sent = Rids(fetched)
                    /\ IsPrefix(sent, Rids(srvSub))
                    /\ Rids(srvSub) = Rids(fetched) => sent = Rids(srvSub)
                    /\ \A j \in 1..Len(srvSub.resources) :
                          j > Len(fetched.resources)
                          => srvSub.resources[j].rid \notin Range(sent)
       /\ Rids(srvSub') # Rids(srvSub) =>
            \E q \in Callers :
                /\ op[q] = "attach" /\ Issues(q, "link")
                /\ Rids(srvSub') =
                       Append(Rids(srvSub), loc[q].resource_id.n)]_vars

C21_Witness ==
    \E p, q \in Callers :
        /\ op[p] = "finalize" /\ pc[p] = "done" /\ out[p].status = "ok"
        /\ Len(log[p][2].resp.resources) = 1
        /\ SubmittedRids(log[p][3].req) = Rids(log[p][2].resp)
        /\ op[q] = "attach" /\ Len(log[q]) >= 3
        /\ log[q][3].call = "link"
        /\ Len(log[q][3].resp.resources) = 2
        /\ ~log[q][3].resp.submitted
        /\ srvSub.submitted
        /\ Len(srvSub.resources) = 2

\* the place of resource id r in the server's list
Place(r) == CHOOSE i \in 1..Len(srvSub.resources) : srvSub.resources[i].rid = r

\* the resource ids an attach result lists, in order
ReportedRids(res) ==
    [i \in 1..Len(res.attachedFiles) |-> res.attachedFiles[i].resourceId]

\* C22: when two attach invocations on the assessment have both
\* succeeded, however their steps interleaved, both resources are
\* attached on the server, and each invocation reports the server's list
\* up to its own resource: the one that linked second reports both and a
\* totalAttachedFiles that counts both, the one that linked first reports
\* a list without the other's resource.
C22_TwoAttaches ==
    \A p, q \in Callers :
        ( /\ p # q
          /\ op[p] = "attach" /\ pc[p] = "done" /\ out[p].status = "ok"
          /\ op[q] = "attach" /\ pc[q] = "done" /\ out[q].status = "ok" )
        => LET rp == loc[p].resource_id.n
               rq == loc[q].resource_id.n
           IN  /\ rp # rq
               /\ {rp, rq} \subseteq Range(Rids(srvSub))
               /\ ReportedRids(out[p].res) =
                      SubSeq(Rids(srvSub), 1, Place(rp))
               /\ out[p].res.totalAttachedFiles = Place(rp)
               /\ Place(rp) < Place(rq)
                  => /\ rq \notin Range(ReportedRids(out[p].res))
                     /\ {rp, rq} \subseteq Range(ReportedRids(out[q].res))
                     /\ out[q].res.totalAttachedFiles >= 2

C22_Witness ==
    \E p, q \in Callers :
        /\ op[p] = "attach" /\ pc[p] = "done" /\ out[p].status = "ok"
        /\ op[q] = "attach" /\ pc[q] = "done" /\ out[q].status = "ok"
        /\ loc[q].resource_id.n < loc[p].resource_id.n
        /\ Place(loc[p].resource_id.n) < Place(loc[q].resource_id.n)
        /\ out[p].res.totalAttachedFiles = 1
        /\ out[q].res.totalAttachedFiles = 2

====
